---- MODULE Spec2Model ----
(***************************************************************************)
(* The game lifecycle of realtime-lotto: rooms (games), players and draw   *)
(* events, and the handlers createGame, joinGame, leaveGame, startGame,    *)
(* drawNumber, checkWinners and getGame.                                   *)
(*                                                                         *)
(* One store is modelled.  The SQL tables games, players and draw_events   *)
(* that joinGame, leaveGame, startGame, checkWinners and getGame use, and  *)
(* the arrays mockGames, mockPlayers and mockDrawEvents that drawNumber    *)
(* uses, hold the same three kinds of record and are the variables games,  *)
(* players and drawEvents.                                                 *)
(*                                                                         *)
(* Timestamps are modelled by their order: a read of the clock (SQL NOW(), *)
(* new Date()) returns an instant later than every instant stored so far.  *)
(* A SQL NULL timestamp is Null.                                           *)
(***************************************************************************)
EXTENDS Integers, Sequences, FiniteSets, TLC

VARIABLES games, players, drawEvents,
          nextGameId, nextPlayerId, nextDrawEventId,
          ret, procs

db == <<games, players, drawEvents, nextGameId, nextPlayerId, nextDrawEventId>>
vars == <<games, players, drawEvents, nextGameId, nextPlayerId, nextDrawEventId, ret, procs>>

(***************************************************************************)
(* Bounds of the model.                                                    *)
(***************************************************************************)
\* Numbers are 1..MaxNumber (the code draws from 1..50).
MaxNumber == 6
\* createGame calls that store a game (game ids are 1..MaxGameId).
MaxGameId == 1
\* joinGame calls that store a player (player ids are 1..MaxPlayerId).
MaxPlayerId == 3
\* The latest instant at which checkWinners still runs.
MaxTime == 11
\* The latest instant at which checkWinners still runs, where calls overlap.
MaxOverlapTime == 12
\* Calls in flight at once, where calls overlap.
MaxProcs == 2
\* Draw events stored, where calls overlap.
MaxDrawEventId == 5
\* _createMockPlayer calls between two resets of the mock store.
MaxMockPlayers == 2

\* Games getGameHistory returns at most (the code has LIMIT 100).
HistoryLimit == 2
\* Games inserted where getGameHistory is called.
MaxHistoryGames == 4
\* The instants given as completed_at to the games inserted as completed.
MaxHistoryInstant == 2

\* The largest max_players of a room, where rooms differ in size.
MaxRoomSize == 3
\* createGame calls that store a game, where several rooms exist side by side.
MaxRooms == 2

(***************************************************************************)
(* Program constants.                                                      *)
(***************************************************************************)
\* Numbers drawn per game, and numbers a player selects.
DrawCount == 5
\* Players needed to start a game.
MinPlayers == 2
\* The smallest max_players createGame accepts (rooms are created with it).
MinRoomSize == 2
\* A NULL timestamp; instants are 1, 2, ...
Null == 0

(***************************************************************************)
(* Inputs.                                                                 *)
(***************************************************************************)
RoomCodes == {"ROOM01"}
RoomSizes == {MinRoomSize}
\* Room codes and sizes where several rooms exist side by side.
AllRoomCodes == {"ROOM01", "ROOM02"}
AllRoomSizes == MinRoomSize..MaxRoomSize
AllGameIds == 1..MaxRooms
\* (player_name, selected_numbers) pairs offered to joinGame: each selection
\* is DrawCount distinct numbers, in an order of the player's choosing.
JoinInputs == {<<"A", <<3, 1, 2, 5, 4>>>>, <<"B", <<2, 3, 4, 5, 6>>>>}
GameIds == 1..MaxGameId
PlayerIds == 1..MaxPlayerId

(***************************************************************************)
(* Helpers.                                                                *)
(***************************************************************************)
Range(s) == {s[i] : i \in DOMAIN s}

Max(S) == CHOOSE x \in S : \A y \in S : y <= x

EmptyTable == [i \in {} |-> i]

Insert(table, id, row) == [i \in DOMAIN table \cup {id} |-> IF i = id THEN row ELSE table[i]]

Delete(table, ids) == [i \in DOMAIN table \ ids |-> table[i]]

\* Every instant stored in the database.
Stamps ==
    {Null}
    \cup {games[g].created_at : g \in DOMAIN games}
    \cup {games[g].started_at : g \in DOMAIN games}
    \cup {games[g].completed_at : g \in DOMAIN games}
    \cup {players[p].joined_at : p \in DOMAIN players}
    \cup {drawEvents[e].drawn_at : e \in DOMAIN drawEvents}

\* NOW() / new Date().
Now == Max(Stamps) + 1

\* Mutant: the room code is not compared.
GamesByRoomCodeAny(code) == DOMAIN games

\* SELECT ... FROM games WHERE room_code = code
GamesByRoomCode(code) == {g \in DOMAIN games : games[g].room_code = code}

\* Mutant: the game_id of a player is not compared.
GamePlayersAny(g) == DOMAIN players

\* SELECT ... FROM players WHERE game_id = g
GamePlayers(g) == {p \in DOMAIN players : players[p].game_id = g}

\* SELECT ... FROM draw_events WHERE game_id = g
GameDrawEvents(g) == {e \in DOMAIN drawEvents : drawEvents[e].game_id = g}

\* Mutant: the cascade empties the child table.
CascadeAll(table, gs) == EmptyTable

\* ON DELETE CASCADE: the rows of a child table that reference no deleted game.
Cascade(table, gs) == Delete(table, {i \in DOMAIN table : table[i].game_id \in gs})

Ok(op, args, value) == [op |-> op, args |-> args, status |-> "ok", value |-> value]

\* A thrown error carries no value.
NoValue == [none |-> TRUE]

Err(op, args, error) == [op |-> op, args |-> args, status |-> error, value |-> NoValue]

Init ==
    /\ games = EmptyTable
    /\ players = EmptyTable
    /\ drawEvents = EmptyTable
    /\ nextGameId = 1
    /\ nextPlayerId = 1
    /\ nextDrawEventId = 1
    /\ ret = [op |-> "none", args |-> [none |-> TRUE], status |-> "ok", value |-> [none |-> TRUE]]
    /\ procs = EmptyTable

(***************************************************************************)
(* Rows as the handlers return them: the stored row with its id.           *)
(***************************************************************************)
GameRow(g) == [id |-> g] @@ games[g]

PlayerRow(p) == [id |-> p] @@ players[p]

DrawEventRow(e) == [id |-> e] @@ drawEvents[e]

(***************************************************************************)
(* createGame(room_code, max_players)                                      *)
(***************************************************************************)
\* Mutant: a new game counts one player.
NewGameCounted(code, size) ==
    [room_code |-> code, status |-> "waiting", max_players |-> size,
     current_players |-> 1, drawn_numbers |-> <<>>, draw_order |-> 0,
     created_at |-> Now, started_at |-> Null, completed_at |-> Null]

NewGame(code, size) ==
    [room_code |-> code, status |-> "waiting", max_players |-> size,
     current_players |-> 0, drawn_numbers |-> <<>>, draw_order |-> 0,
     created_at |-> Now, started_at |-> Null, completed_at |-> Null]

\* Mutant: room codes are not compared.
RoomCodeTakenNever(code) == FALSE

\* room_code VARCHAR(10) NOT NULL UNIQUE: a game with the code is stored.
RoomCodeTaken(code) == GamesByRoomCode(code) # {}

\* createGame while at most limit games have been stored.
CreateGameUpTo(code, size, limit) ==
    LET args == [room_code |-> code, max_players |-> size] IN
    /\ UNCHANGED procs
    /\ IF RoomCodeTaken(code)
       THEN /\ ret' = Err("createGame", args, "DuplicateRoomCode")
            /\ UNCHANGED db
       ELSE /\ nextGameId <= limit
            /\ games' = Insert(games, nextGameId, NewGame(code, size))
            /\ nextGameId' = nextGameId + 1
            /\ ret' = Ok("createGame", args, [id |-> nextGameId] @@ NewGame(code, size))
            /\ UNCHANGED <<players, drawEvents, nextPlayerId, nextDrawEventId>>

CreateGame(code, size) == CreateGameUpTo(code, size, MaxGameId)

(***************************************************************************)
(* joinGame(room_code, player_name, selected_numbers)                      *)
(***************************************************************************)
\* Mutant: a room takes one player more than max_players.
IsFullOver(game) == game.current_players > game.max_players

\* game.current_players >= game.max_players
IsFull(game) == game.current_players >= game.max_players

\* INSERT INTO players (...) VALUES (game.id, name, selection, false, NOW())
NewPlayer(g, name, sel) ==
    [game_id |-> g, player_name |-> name, selected_numbers |-> sel,
     is_winner |-> FALSE, joined_at |-> Now]

\* Mutant: a join counts twice.
IncrementPlayersTwice(table, g) ==
    IF g \in DOMAIN table
    THEN [table EXCEPT ![g].current_players = @ + 2]
    ELSE table

\* Mutant: the count is not updated.
IncrementPlayersLost(table, g) == table

\* UPDATE games SET current_players = current_players + 1 WHERE id = g
IncrementPlayers(table, g) ==
    IF g \in DOMAIN table
    THEN [table EXCEPT ![g].current_players = @ + 1]
    ELSE table

JoinGame(code, name, sel) ==
    LET args == [room_code |-> code, player_name |-> name, selected_numbers |-> sel]
        found == GamesByRoomCode(code)
    IN
    /\ UNCHANGED procs
    /\ IF found = {}
       THEN /\ ret' = Err("joinGame", args, "NotFound")
            /\ UNCHANGED db
       ELSE LET g == CHOOSE x \in found : TRUE
                game == games[g]
            IN
            IF game.status # "waiting"
            THEN /\ ret' = Err("joinGame", args, "InvalidState")
                 /\ UNCHANGED db
            ELSE IF IsFull(game)
            THEN /\ ret' = Err("joinGame", args, "GameFull")
                 /\ UNCHANGED db
            ELSE /\ nextPlayerId <= MaxPlayerId
                 /\ players' = Insert(players, nextPlayerId, NewPlayer(g, name, sel))
                 /\ nextPlayerId' = nextPlayerId + 1
                 /\ games' = IncrementPlayers(games, g)
                 /\ ret' = Ok("joinGame", args, [id |-> nextPlayerId] @@ NewPlayer(g, name, sel))
                 /\ UNCHANGED <<drawEvents, nextGameId, nextDrawEventId>>

(***************************************************************************)
(* leaveGame(gameId, playerId): one database transaction.                  *)
(***************************************************************************)
\* Mutant: the count is not decremented.
DecrementedPlayersKept(game) == game.current_players

\* Mutant: the count is floored at 1.
DecrementedPlayersFloorOne(game) == Max({1, game.current_players - 1})

\* Math.max(0, game.current_players - 1)
DecrementedPlayers(game) == Max({0, game.current_players - 1})

\* Mutant: the player is deleted before the status is checked, and the
\* transaction does not roll back.
LeaveGameNoRollback(g, p) ==
    LET args == [gameId |-> g, playerId |-> p] IN
    /\ UNCHANGED procs
    /\ IF g \notin DOMAIN games
       THEN /\ ret' = Err("leaveGame", args, "NotFound")
            /\ UNCHANGED db
       ELSE IF p \notin GamePlayers(g)
       THEN /\ ret' = Err("leaveGame", args, "NotFound")
            /\ UNCHANGED db
       ELSE IF games[g].status # "waiting"
       THEN /\ ret' = Err("leaveGame", args, "InvalidState")
            /\ players' = Delete(players, {p})
            /\ UNCHANGED <<games, drawEvents, nextGameId, nextPlayerId, nextDrawEventId>>
       ELSE LET newCurrentPlayers == DecrementedPlayers(games[g]) IN
            /\ IF newCurrentPlayers = 0
               THEN /\ games' = Delete(games, {g})
                    /\ players' = Cascade(Delete(players, {p}), {g})
                    /\ drawEvents' = Cascade(drawEvents, {g})
               ELSE /\ games' = [games EXCEPT ![g].current_players = newCurrentPlayers]
                    /\ players' = Delete(players, {p})
                    /\ UNCHANGED drawEvents
            /\ ret' = Ok("leaveGame", args, [left |-> TRUE])
            /\ UNCHANGED <<nextGameId, nextPlayerId, nextDrawEventId>>

LeaveGame(g, p) ==
    LET args == [gameId |-> g, playerId |-> p] IN
    /\ UNCHANGED procs
    /\ IF g \notin DOMAIN games
       THEN /\ ret' = Err("leaveGame", args, "NotFound")
            /\ UNCHANGED db
       ELSE IF p \notin GamePlayers(g)
       THEN /\ ret' = Err("leaveGame", args, "NotFound")
            /\ UNCHANGED db
       ELSE IF games[g].status # "waiting"
       THEN /\ ret' = Err("leaveGame", args, "InvalidState")
            /\ UNCHANGED db
       ELSE LET newCurrentPlayers == DecrementedPlayers(games[g]) IN
            /\ IF newCurrentPlayers = 0
               THEN /\ games' = Delete(games, {g})
                    /\ players' = Cascade(Delete(players, {p}), {g})
                    /\ drawEvents' = Cascade(drawEvents, {g})
               ELSE /\ games' = [games EXCEPT ![g].current_players = newCurrentPlayers]
                    /\ players' = Delete(players, {p})
                    /\ UNCHANGED drawEvents
            /\ ret' = Ok("leaveGame", args, [left |-> TRUE])
            /\ UNCHANGED <<nextGameId, nextPlayerId, nextDrawEventId>>

(***************************************************************************)
(* startGame(room_code)                                                    *)
(***************************************************************************)
\* Mutant: one player is enough to start.
TooFewPlayersOne(count) == count < 1

\* currentPlayers < 2
TooFewPlayers(count) == count < MinPlayers

\* Mutant: current_players keeps the stored value.
StartedGameStoredCount(game, count) ==
    [game EXCEPT !.status = "in_progress", !.started_at = Now,
                 !.draw_order = 0, !.drawn_numbers = <<>>]

\* UPDATE games SET status = 'in_progress', started_at = NOW(),
\*   current_players = count, draw_order = 0, drawn_numbers = '[]' WHERE id = g
StartedGame(game, count) ==
    [game EXCEPT !.status = "in_progress", !.started_at = Now,
                 !.current_players = count, !.draw_order = 0,
                 !.drawn_numbers = <<>>]

StartGame(code) ==
    LET args == [room_code |-> code]
        found == GamesByRoomCode(code)
    IN
    /\ UNCHANGED procs
    /\ IF found = {}
       THEN /\ ret' = Err("startGame", args, "NotFound")
            /\ UNCHANGED db
       ELSE LET g == CHOOSE x \in found : TRUE
                count == Cardinality(GamePlayers(g))
            IN
            IF games[g].status # "waiting"
            THEN /\ ret' = Err("startGame", args, "InvalidState")
                 /\ UNCHANGED db
            ELSE IF TooFewPlayers(count)
            THEN /\ ret' = Err("startGame", args, "InsufficientPlayers")
                 /\ UNCHANGED db
            ELSE /\ games' = [games EXCEPT ![g] = StartedGame(games[g], count)]
                 /\ ret' = Ok("startGame", args, [id |-> g] @@ StartedGame(games[g], count))
                 /\ UNCHANGED <<players, drawEvents, nextGameId, nextPlayerId, nextDrawEventId>>

(***************************************************************************)
(* drawNumber(gameId)                                                      *)
(***************************************************************************)
\* Mutant: the pool is not filtered by the numbers already drawn.
AvailableNumbersUnfiltered(drawnNumbers) == 1..MaxNumber

\* Mutant: the pool holds fewer numbers than a game draws.
AvailableNumbersShortPool(drawnNumbers) ==
    {num \in 1..(DrawCount - 1) : num \notin Range(drawnNumbers)}

\* Array.from({length: 50}, (_, i) => i + 1).filter(num => !drawnNumbers.includes(num))
AvailableNumbers(drawnNumbers) == {num \in 1..MaxNumber : num \notin Range(drawnNumbers)}

\* Mutant: positions counted from 0.
DrawPositionFromZero(game) == game.draw_order

\* Mutant: every draw event gets position 1.
DrawPositionStuck(game) == 1

\* game.draw_order + 1
DrawPosition(game) == game.draw_order + 1

\* Mutant: the 5th draw is not recognised.
IsLastDrawNever(updatedDrawOrder) == FALSE

\* Mutant: the game is finished one draw too late.
IsLastDrawLate(updatedDrawOrder) == updatedDrawOrder > DrawCount

\* updatedDrawOrder === 5
IsLastDraw(updatedDrawOrder) == updatedDrawOrder = DrawCount

\* Mutant: the selection must match the drawn numbers position by position.
HasWonInOrder(selectedNumbers, drawnNumbers) ==
    \A i \in DOMAIN selectedNumbers :
        i \in DOMAIN drawnNumbers /\ selectedNumbers[i] = drawnNumbers[i]

\* Mutant: one drawn number is enough to win.
HasWonAny(selectedNumbers, drawnNumbers) ==
    \E i \in DOMAIN selectedNumbers : selectedNumbers[i] \in Range(drawnNumbers)

\* selectedNumbers.every(num => updatedDrawnNumbers.includes(num))
HasWon(selectedNumbers, drawnNumbers) ==
    \A i \in DOMAIN selectedNumbers : selectedNumbers[i] \in Range(drawnNumbers)

\* Mutant: the flag of a winner is flipped.
MarkWinnersFlipped(table, winners) ==
    [p \in DOMAIN table |->
        IF p \in winners THEN [table[p] EXCEPT !.is_winner = ~@] ELSE table[p]]

\* for (const player of gamePlayers) { if (hasWon) player.is_winner = true }
MarkWinners(table, winners) ==
    [p \in DOMAIN table |->
        IF p \in winners THEN [table[p] EXCEPT !.is_winner = TRUE] ELSE table[p]]

\* Mutant: the draw order is not checked.
DrawsExhaustedNever(game) == FALSE

\* game.draw_order >= 5
DrawsExhausted(game) == game.draw_order >= DrawCount

\* The failing paths of drawNumber.
DrawNumberFails(g) ==
    LET args == [gameId |-> g] IN
    /\ UNCHANGED <<db, procs>>
    /\ IF g \notin DOMAIN games
       THEN ret' = Err("drawNumber", args, "NotFound")
       ELSE IF games[g].status # "in_progress"
       THEN ret' = Err("drawNumber", args, "InvalidState")
       ELSE IF DrawsExhausted(games[g])
       THEN ret' = Err("drawNumber", args, "AllNumbersDrawn")
       ELSE /\ AvailableNumbers(games[g].drawn_numbers) = {}
            /\ ret' = Err("drawNumber", args, "NoAvailableNumbers")

\* The path of drawNumber on which Math.random() picks drawnNumber.
DrawNumberDraws(g, drawnNumber) ==
    /\ g \in DOMAIN games
    /\ games[g].status = "in_progress"
    /\ ~DrawsExhausted(games[g])
    /\ drawnNumber \in AvailableNumbers(games[g].drawn_numbers)
    /\ LET game == games[g]
           drawEvent == [game_id |-> g, drawn_number |-> drawnNumber,
                         draw_position |-> DrawPosition(game), drawn_at |-> Now]
           updatedDrawnNumbers == Append(game.drawn_numbers, drawnNumber)
           updatedDrawOrder == game.draw_order + 1
           winners == {p \in GamePlayers(g) :
                          HasWon(players[p].selected_numbers, updatedDrawnNumbers)}
       IN
       /\ drawEvents' = Insert(drawEvents, nextDrawEventId, drawEvent)
       /\ nextDrawEventId' = nextDrawEventId + 1
       /\ IF IsLastDraw(updatedDrawOrder)
          THEN /\ players' = MarkWinners(players, winners)
               /\ games' = [games EXCEPT ![g].drawn_numbers = updatedDrawnNumbers,
                                         ![g].draw_order = updatedDrawOrder,
                                         ![g].status = "completed",
                                         ![g].completed_at = Now + 1]
          ELSE /\ games' = [games EXCEPT ![g].drawn_numbers = updatedDrawnNumbers,
                                         ![g].draw_order = updatedDrawOrder]
               /\ UNCHANGED players
       /\ ret' = Ok("drawNumber", [gameId |-> g], [id |-> nextDrawEventId] @@ drawEvent)
       /\ UNCHANGED <<nextGameId, nextPlayerId, procs>>

DrawNumber(g) ==
    \/ DrawNumberFails(g)
    \/ \E drawnNumber \in 1..MaxNumber : DrawNumberDraws(g, drawnNumber)

(***************************************************************************)
(* checkWinners(gameId)                                                    *)
(***************************************************************************)
\* Mutant: only a game with no number drawn is refused.
NotAllDrawnEmpty(drawnNumbers) == Len(drawnNumbers) = 0

\* drawnNumbers.length !== 5
NotAllDrawn(drawnNumbers) == Len(drawnNumbers) # DrawCount

\* Mutant: some() instead of every().
HasSomeNumber(selectedNumbers, drawnNumbersSet) ==
    /\ Len(selectedNumbers) = DrawCount
    /\ \E i \in DOMAIN selectedNumbers : selectedNumbers[i] \in drawnNumbersSet

\* selectedNumbers.every(num => drawnNumbersSet.has(num)), for a selection of 5
HasAllNumbers(selectedNumbers, drawnNumbersSet) ==
    /\ Len(selectedNumbers) = DrawCount
    /\ \A i \in DOMAIN selectedNumbers : selectedNumbers[i] \in drawnNumbersSet

\* UPDATE games SET status = 'completed', completed_at = NOW() WHERE id = g
CompletedGame(game) == [game EXCEPT !.status = "completed", !.completed_at = Now]

CheckWinners(g) ==
    LET args == [gameId |-> g] IN
    /\ UNCHANGED procs
    /\ IF g \notin DOMAIN games
       THEN /\ ret' = Err("checkWinners", args, "NotFound")
            /\ UNCHANGED db
       ELSE IF NotAllDrawn(games[g].drawn_numbers)
       THEN /\ ret' = Err("checkWinners", args, "PreconditionFailed")
            /\ UNCHANGED db
       ELSE LET drawnNumbersSet == Range(games[g].drawn_numbers)
                winners == {p \in GamePlayers(g) :
                               HasAllNumbers(players[p].selected_numbers, drawnNumbersSet)}
            IN
            /\ Now <= MaxTime
            /\ players' = MarkWinners(players, winners)
            /\ games' = [games EXCEPT ![g] = CompletedGame(games[g])]
            /\ ret' = Ok("checkWinners", args,
                         [winners |-> {[PlayerRow(p) EXCEPT !.is_winner = TRUE] : p \in winners}])
            /\ UNCHANGED <<drawEvents, nextGameId, nextPlayerId, nextDrawEventId>>

(***************************************************************************)
(* getGame(room_code)                                                      *)
(***************************************************************************)
\* The orders in which ORDER BY col ASC may return the rows ids of table.
OrderedBy(table, ids, col) ==
    {s \in [1..Cardinality(ids) -> ids] :
        /\ \A i, j \in DOMAIN s : i # j => s[i] # s[j]
        /\ \A i, j \in DOMAIN s : i < j => table[s[i]][col] <= table[s[j]][col]}

\* ORDER BY drawn_at DESC LIMIT 1: a row with the latest drawn_at, if any.
LatestDraws(ids) ==
    IF ids = {}
    THEN {<<>>}
    ELSE {<<DrawEventRow(e)>> : e \in {x \in ids :
              \A y \in ids : drawEvents[y].drawn_at <= drawEvents[x].drawn_at}}

GetGame(code) ==
    LET args == [room_code |-> code]
        found == GamesByRoomCode(code)
    IN
    /\ UNCHANGED <<db, procs>>
    /\ IF found = {}
       THEN ret' = Err("getGame", args, "NotFound")
       ELSE LET g == CHOOSE x \in found : TRUE IN
            \E order \in OrderedBy(players, GamePlayers(g), "joined_at"),
               latest \in LatestDraws(GameDrawEvents(g)) :
                ret' = Ok("getGame", args,
                          [game |-> GameRow(g),
                           players |-> [i \in DOMAIN order |-> PlayerRow(order[i])],
                           latest_draw |-> latest])

(***************************************************************************)
(* Calls that run one after another: each handler runs to its end before   *)
(* the next call starts.  Spec has the calls that write; ReadSpec has      *)
(* getGame as well.                                                        *)
(***************************************************************************)
Next ==
    \/ \E code \in RoomCodes, size \in RoomSizes : CreateGame(code, size)
    \/ \E code \in RoomCodes, in \in JoinInputs : JoinGame(code, in[1], in[2])
    \/ \E g \in GameIds, p \in PlayerIds : LeaveGame(g, p)
    \/ \E code \in RoomCodes : StartGame(code)
    \/ \E g \in GameIds : DrawNumber(g)
    \/ \E g \in GameIds : CheckWinners(g)

Spec == Init /\ [][Next]_vars

ReadNext ==
    \/ Next
    \/ \E code \in RoomCodes : GetGame(code)

ReadSpec == Init /\ [][ReadNext]_vars

(***************************************************************************)
(* Fair invocation of drawNumber: a caller (a timer, an orchestrator)      *)
(* keeps calling drawNumber on every game.                                 *)
(***************************************************************************)
FairSpec == Spec /\ \A g \in GameIds : WF_vars(DrawNumber(g))

(***************************************************************************)
(* Calls that overlap.  joinGame, startGame and checkWinners await each    *)
(* SQL statement on its own, outside any transaction, so the statements of *)
(* calls in flight interleave.  A step is one statement together with the  *)
(* local code that follows it up to the next statement.  procs holds the   *)
(* calls in flight with their local variables.  leaveGame runs in one      *)
(* transaction at the isolation level of the database, READ COMMITTED: its *)
(* reads are one step and its writes, which the commit makes visible       *)
(* together, are another.  drawNumber awaits nothing: it is a single step. *)
(* A startGame call whose statements no other call interleaves with is     *)
(* also taken as the single step StartGame.                                *)
(***************************************************************************)
Slots == 1..MaxProcs

\* The slot a new call takes.
FreeSlot == CHOOSE i \in Slots \ DOMAIN procs : \A j \in Slots \ DOMAIN procs : i <= j

\* The calls in flight of handler op that stand before statement pc.
At(op, pc) == {i \in DOMAIN procs : procs[i].op = op /\ procs[i].pc = pc}

\* A call that throws or returns at its first statement.
ReturnAtOnce(r) ==
    /\ ret' = r
    /\ UNCHANGED <<db, procs>>

\* The call in slot i throws or returns.
Return(i, r) ==
    /\ ret' = r
    /\ procs' = Delete(procs, {i})

\* joinGame: SELECT * FROM games WHERE room_code = code, and the checks on the row.
JoinSelectGame(code, name, sel) ==
    LET args == [room_code |-> code, player_name |-> name, selected_numbers |-> sel]
        found == GamesByRoomCode(code)
    IN
    /\ DOMAIN procs # Slots
    /\ IF found = {}
       THEN ReturnAtOnce(Err("joinGame", args, "NotFound"))
       ELSE LET g == CHOOSE x \in found : TRUE IN
            IF games[g].status # "waiting"
            THEN ReturnAtOnce(Err("joinGame", args, "InvalidState"))
            ELSE IF IsFull(games[g])
            THEN ReturnAtOnce(Err("joinGame", args, "GameFull"))
            ELSE /\ nextPlayerId + Cardinality(At("joinGame", "insert")) <= MaxPlayerId
                 /\ procs' = Insert(procs, FreeSlot,
                                    [op |-> "joinGame", pc |-> "insert", args |-> args, game |-> g])
                 /\ UNCHANGED <<db, ret>>

\* joinGame: INSERT INTO players ... RETURNING *
JoinInsertPlayer(i) ==
    /\ i \in At("joinGame", "insert")
    /\ LET call == procs[i]
           newPlayer == NewPlayer(call.game, call.args.player_name, call.args.selected_numbers)
       IN
       IF call.game \notin DOMAIN games
       THEN /\ Return(i, Err("joinGame", call.args, "ForeignKeyViolation"))
            /\ UNCHANGED db
       ELSE /\ players' = Insert(players, nextPlayerId, newPlayer)
            /\ nextPlayerId' = nextPlayerId + 1
            /\ procs' = [procs EXCEPT ![i] =
                            [op |-> "joinGame", pc |-> "update", args |-> call.args,
                             game |-> call.game,
                             newPlayer |-> [id |-> nextPlayerId] @@ newPlayer]]
            /\ UNCHANGED <<games, drawEvents, nextGameId, nextDrawEventId, ret>>

\* joinGame: UPDATE games SET current_players = current_players + 1, and the return.
JoinUpdateGame(i) ==
    /\ i \in At("joinGame", "update")
    /\ games' = IncrementPlayers(games, procs[i].game)
    /\ Return(i, Ok("joinGame", procs[i].args, procs[i].newPlayer))
    /\ UNCHANGED <<players, drawEvents, nextGameId, nextPlayerId, nextDrawEventId>>

\* leaveGame: the two SELECTs of the transaction and the checks on their rows.
\* The transaction runs at the isolation level of the database (READ COMMITTED):
\* statements of other calls commit between its statements.
LeaveSelect(g, p) ==
    LET args == [gameId |-> g, playerId |-> p] IN
    /\ DOMAIN procs # Slots
    /\ IF g \notin DOMAIN games
       THEN ReturnAtOnce(Err("leaveGame", args, "NotFound"))
       ELSE IF p \notin GamePlayers(g)
       THEN ReturnAtOnce(Err("leaveGame", args, "NotFound"))
       ELSE IF games[g].status # "waiting"
       THEN ReturnAtOnce(Err("leaveGame", args, "InvalidState"))
       ELSE /\ procs' = Insert(procs, FreeSlot,
                               [op |-> "leaveGame", pc |-> "delete", args |-> args,
                                game |-> GameRow(g)])
            /\ UNCHANGED <<db, ret>>

\* leaveGame: DELETE FROM players, UPDATE games SET current_players =
\* newCurrentPlayers, DELETE FROM games if that is 0, and the commit.
LeaveWrite(i) ==
    /\ i \in At("leaveGame", "delete")
    /\ LET g == procs[i].args.gameId
           p == procs[i].args.playerId
           newCurrentPlayers == DecrementedPlayers(procs[i].game)
       IN
       IF newCurrentPlayers = 0
       THEN /\ games' = Delete(games, {g})
            /\ players' = Cascade(Delete(players, {p}), {g})
            /\ drawEvents' = Cascade(drawEvents, {g})
       ELSE /\ games' = IF g \in DOMAIN games
                        THEN [games EXCEPT ![g].current_players = newCurrentPlayers]
                        ELSE games
            /\ players' = Delete(players, {p})
            /\ UNCHANGED drawEvents
    /\ Return(i, Ok("leaveGame", procs[i].args, [left |-> TRUE]))
    /\ UNCHANGED <<nextGameId, nextPlayerId, nextDrawEventId>>

\* startGame: SELECT * FROM games WHERE room_code = code, and the status check.
StartSelectGame(code) ==
    LET args == [room_code |-> code]
        found == GamesByRoomCode(code)
    IN
    /\ DOMAIN procs # Slots
    /\ IF found = {}
       THEN ReturnAtOnce(Err("startGame", args, "NotFound"))
       ELSE LET g == CHOOSE x \in found : TRUE IN
            IF games[g].status # "waiting"
            THEN ReturnAtOnce(Err("startGame", args, "InvalidState"))
            ELSE /\ procs' = Insert(procs, FreeSlot,
                                    [op |-> "startGame", pc |-> "count", args |-> args, game |-> g])
                 /\ UNCHANGED <<db, ret>>

\* startGame: SELECT COUNT(*) FROM players WHERE game_id = game.id, and the check.
StartCountPlayers(i) ==
    /\ i \in At("startGame", "count")
    /\ LET call == procs[i]
           currentPlayers == Cardinality(GamePlayers(call.game))
       IN
       IF TooFewPlayers(currentPlayers)
       THEN Return(i, Err("startGame", call.args, "InsufficientPlayers"))
       ELSE procs' = [procs EXCEPT ![i] =
                         [op |-> "startGame", pc |-> "update", args |-> call.args,
                          game |-> call.game, currentPlayers |-> currentPlayers]]
            /\ UNCHANGED ret
    /\ UNCHANGED db

\* startGame: UPDATE games SET status = 'in_progress', ... WHERE id = game.id
\* RETURNING *, and the return.  With no row updated, reading the returned row
\* throws a TypeError.
StartUpdateGame(i) ==
    /\ i \in At("startGame", "update")
    /\ LET call == procs[i] IN
       IF call.game \notin DOMAIN games
       THEN /\ Return(i, Err("startGame", call.args, "TypeError"))
            /\ UNCHANGED db
       ELSE LET updatedGame == StartedGame(games[call.game], call.currentPlayers) IN
            /\ games' = [games EXCEPT ![call.game] = updatedGame]
            /\ Return(i, Ok("startGame", call.args, [id |-> call.game] @@ updatedGame))
            /\ UNCHANGED <<players, drawEvents, nextGameId, nextPlayerId, nextDrawEventId>>

\* checkWinners: SELECT ... FROM games WHERE id = gameId, and the check of the
\* drawn numbers.
CheckSelectGame(g) ==
    LET args == [gameId |-> g] IN
    /\ DOMAIN procs # Slots
    /\ IF g \notin DOMAIN games
       THEN ReturnAtOnce(Err("checkWinners", args, "NotFound"))
       ELSE IF NotAllDrawn(games[g].drawn_numbers)
       THEN ReturnAtOnce(Err("checkWinners", args, "PreconditionFailed"))
       ELSE /\ procs' = Insert(procs, FreeSlot,
                               [op |-> "checkWinners", pc |-> "players", args |-> args,
                                drawnNumbers |-> games[g].drawn_numbers])
            /\ UNCHANGED <<db, ret>>

\* The statement a checkWinners call stands before when toMark are the winners
\* whose row it has not updated yet.
CheckPc(toMark) == IF toMark = {} THEN "complete" ELSE "mark"

\* checkWinners: SELECT ... FROM players WHERE game_id = gameId, and the
\* comparison of every row with the drawn numbers.
CheckSelectPlayers(i) ==
    /\ i \in At("checkWinners", "players")
    /\ LET call == procs[i]
           toMark == {p \in GamePlayers(call.args.gameId) :
                         HasAllNumbers(players[p].selected_numbers, Range(call.drawnNumbers))}
       IN
       procs' = [procs EXCEPT ![i] =
                    [op |-> "checkWinners", pc |-> CheckPc(toMark), args |-> call.args,
                     toMark |-> toMark,
                     winners |-> {[PlayerRow(p) EXCEPT !.is_winner = TRUE] : p \in toMark}]]
    /\ UNCHANGED <<db, ret>>

\* checkWinners: UPDATE players SET is_winner = true WHERE id = player.id
CheckMarkWinner(i) ==
    /\ i \in At("checkWinners", "mark")
    /\ \E p \in procs[i].toMark :
          /\ players' = MarkWinners(players, {p})
          /\ procs' = [procs EXCEPT ![i].toMark = @ \ {p},
                                    ![i].pc = CheckPc(procs[i].toMark \ {p})]
    /\ UNCHANGED <<games, drawEvents, nextGameId, nextPlayerId, nextDrawEventId, ret>>

\* checkWinners: UPDATE games SET status = 'completed', completed_at = NOW()
\* WHERE id = gameId, and the return.
CheckCompleteGame(i) ==
    /\ i \in At("checkWinners", "complete")
    /\ Now <= MaxOverlapTime
    /\ LET g == procs[i].args.gameId IN
       games' = IF g \in DOMAIN games
                THEN [games EXCEPT ![g] = CompletedGame(games[g])]
                ELSE games
    /\ Return(i, Ok("checkWinners", procs[i].args, [winners |-> procs[i].winners]))
    /\ UNCHANGED <<players, drawEvents, nextGameId, nextPlayerId, nextDrawEventId>>

\* getGame: SELECT ... FROM games WHERE room_code = code
GetSelectGame(code) ==
    LET args == [room_code |-> code]
        found == GamesByRoomCode(code)
    IN
    /\ DOMAIN procs # Slots
    /\ IF found = {}
       THEN ReturnAtOnce(Err("getGame", args, "NotFound"))
       ELSE LET g == CHOOSE x \in found : TRUE IN
            /\ procs' = Insert(procs, FreeSlot,
                               [op |-> "getGame", pc |-> "players", args |-> args,
                                game |-> GameRow(g)])
            /\ UNCHANGED <<db, ret>>

\* getGame: SELECT ... FROM players WHERE game_id = game.id ORDER BY joined_at ASC
GetSelectPlayers(i) ==
    /\ i \in At("getGame", "players")
    /\ \E order \in OrderedBy(players, GamePlayers(procs[i].game.id), "joined_at") :
          procs' = [procs EXCEPT ![i] =
                       [op |-> "getGame", pc |-> "latestDraw", args |-> procs[i].args,
                        game |-> procs[i].game,
                        players |-> [k \in DOMAIN order |-> PlayerRow(order[k])]]]
    /\ UNCHANGED <<db, ret>>

\* getGame: SELECT ... FROM draw_events WHERE game_id = game.id
\* ORDER BY drawn_at DESC LIMIT 1, and the return.
GetSelectLatestDraw(i) ==
    /\ i \in At("getGame", "latestDraw")
    /\ \E latest \in LatestDraws(GameDrawEvents(procs[i].game.id)) :
          Return(i, Ok("getGame", procs[i].args,
                       [game |-> procs[i].game,
                        players |-> procs[i].players,
                        latest_draw |-> latest]))
    /\ UNCHANGED db

\* availableNumbers[Math.floor(Math.random() * availableNumbers.length)] with
\* Math.random() returning 0: the first of the available numbers.
FirstAvailable(drawnNumbers) ==
    {num \in AvailableNumbers(drawnNumbers) :
        \A other \in AvailableNumbers(drawnNumbers) : num <= other}

\* drawNumber where calls overlap: the number drawn has no part in how the
\* statements of the calls interleave, so the random source is held at 0; at
\* most MaxDrawEventId draw events are stored.
DrawFirstNumber(g) ==
    /\ nextDrawEventId <= MaxDrawEventId
    /\ \/ DrawNumberFails(g)
       \/ /\ g \in DOMAIN games
          /\ \E drawnNumber \in FirstAvailable(games[g].drawn_numbers) :
                DrawNumberDraws(g, drawnNumber)

ConcNext ==
    \/ \E code \in RoomCodes, size \in RoomSizes : CreateGame(code, size)
    \/ \E code \in RoomCodes, in \in JoinInputs : JoinSelectGame(code, in[1], in[2])
    \/ \E i \in Slots : JoinInsertPlayer(i)
    \/ \E i \in Slots : JoinUpdateGame(i)
    \/ \E g \in GameIds, p \in PlayerIds : LeaveSelect(g, p)
    \/ \E i \in Slots : LeaveWrite(i)
    \/ \E code \in RoomCodes : StartSelectGame(code)
    \/ \E i \in Slots : StartCountPlayers(i)
    \/ \E i \in Slots : StartUpdateGame(i)
    \/ \E code \in RoomCodes : DOMAIN procs # Slots /\ StartGame(code)
    \/ \E g \in GameIds : DrawFirstNumber(g)
    \/ \E g \in GameIds : CheckSelectGame(g)
    \/ \E i \in Slots : CheckSelectPlayers(i)
    \/ \E i \in Slots : CheckMarkWinner(i)
    \/ \E i \in Slots : CheckCompleteGame(i)

ConcSpec == Init /\ [][ConcNext]_vars

\* The overlapping calls with getGame among them.
ConcReadNext ==
    \/ ConcNext
    \/ \E code \in RoomCodes : GetSelectGame(code)
    \/ \E i \in Slots : GetSelectPlayers(i)
    \/ \E i \in Slots : GetSelectLatestDraw(i)

ConcReadSpec == Init /\ [][ConcReadNext]_vars

(***************************************************************************)
(* getGame among calls that write.  getGame awaits its three SELECTs one   *)
(* by one, outside any transaction, so calls that write run between them;  *)
(* here each writing call runs to its end in one step.                     *)
(***************************************************************************)
ReadStepsNext ==
    \/ \E code \in RoomCodes, size \in RoomSizes : CreateGame(code, size)
    \/ \E code \in RoomCodes, in \in JoinInputs : JoinGame(code, in[1], in[2])
    \/ \E g \in GameIds, p \in PlayerIds : LeaveGame(g, p)
    \/ \E code \in RoomCodes : StartGame(code)
    \/ \E g \in GameIds : DrawFirstNumber(g)
    \/ \E code \in RoomCodes : GetSelectGame(code)
    \/ \E i \in Slots : GetSelectPlayers(i)
    \/ \E i \in Slots : GetSelectLatestDraw(i)

ReadStepsSpec == Init /\ [][ReadStepsNext]_vars

(***************************************************************************)

(* Several rooms side by side, of different sizes, with calls that run one *)
(* after another.  The numbers drawn have no part in who may join, leave   *)
(* or start, so the random source is held at 0.                            *)
(***************************************************************************)
RoomsNext ==
    \/ \E code \in AllRoomCodes, size \in AllRoomSizes : CreateGameUpTo(code, size, MaxRooms)
    \/ \E code \in AllRoomCodes, in \in JoinInputs : JoinGame(code, in[1], in[2])
    \/ \E g \in AllGameIds, p \in PlayerIds : LeaveGame(g, p)
    \/ \E code \in AllRoomCodes : StartGame(code)
    \/ \E g \in AllGameIds : DrawFirstNumber(g)
    \/ \E g \in AllGameIds : CheckWinners(g)
    \/ \E code \in AllRoomCodes : GetGame(code)

RoomsSpec == Init /\ [][RoomsNext]_vars

(***************************************************************************)
(* drawNumber on the store of its own module, filled by the helpers that   *)
(* the module exports: _createMockGame and _createMockPlayer push a row    *)
(* with the fields they are given, _resetMockData empties the store.       *)
(* checkWinners runs on such rows too: its tests insert a game with its    *)
(* drawn numbers and players that are not marked yet.                      *)
(***************************************************************************)
\* The gameData given to _createMockGame: a waiting game, games in progress
\* with 0, 4 and 5 numbers drawn, a game in progress with every number of the
\* pool drawn, and a completed game.
MockGameData ==
    {[room_code |-> "ROOM01", status |-> st[1], max_players |-> 4, current_players |-> 2,
      drawn_numbers |-> st[2], draw_order |-> st[3]] :
        st \in {<<"waiting", <<>>, 0>>,
                <<"in_progress", <<>>, 0>>,
                <<"in_progress", <<1, 2, 3, 4>>, 4>>,
                <<"in_progress", <<1, 2, 3, 4, 5>>, 5>>,
                <<"in_progress", [num \in 1..MaxNumber |-> num], 4>>,
                <<"completed", <<1, 2, 3, 4, 5>>, 5>>}}

\* _createMockGame(gameData)
CreateMockGame(gameData) ==
    LET game == gameData @@ [created_at |-> Now, started_at |-> Null, completed_at |-> Null] IN
    /\ nextGameId <= MaxGameId
    /\ games' = Insert(games, nextGameId, game)
    /\ nextGameId' = nextGameId + 1
    /\ ret' = Ok("_createMockGame", gameData, [id |-> nextGameId] @@ game)
    /\ UNCHANGED <<players, drawEvents, nextPlayerId, nextDrawEventId, procs>>

\* _createMockPlayer(playerData)
CreateMockPlayer(g, name, sel) ==
    LET playerData == [game_id |-> g, player_name |-> name, selected_numbers |-> sel,
                       is_winner |-> FALSE]
        player == playerData @@ [joined_at |-> Now]
    IN
    /\ nextPlayerId <= MaxMockPlayers
    /\ players' = Insert(players, nextPlayerId, player)
    /\ nextPlayerId' = nextPlayerId + 1
    /\ ret' = Ok("_createMockPlayer", playerData, [id |-> nextPlayerId] @@ player)
    /\ UNCHANGED <<games, drawEvents, nextGameId, nextDrawEventId, procs>>

\* _resetMockData()
ResetMockData ==
    /\ games' = EmptyTable
    /\ players' = EmptyTable
    /\ drawEvents' = EmptyTable
    /\ nextGameId' = 1
    /\ nextPlayerId' = 1
    /\ nextDrawEventId' = 1
    /\ ret' = Ok("_resetMockData", [none |-> TRUE], NoValue)
    /\ UNCHANGED procs

MockNext ==
    \/ \E gameData \in MockGameData : CreateMockGame(gameData)
    \/ \E g \in GameIds, in \in JoinInputs : CreateMockPlayer(g, in[1], in[2])
    \/ ResetMockData
    \/ \E g \in GameIds : DrawNumber(g)
    \/ \E g \in GameIds : CheckWinners(g)

MockSpec == Init /\ [][MockNext]_vars

(***************************************************************************)
(* getGameHistory() on a games table filled as its tests fill it: with     *)
(* games inserted as waiting, as in progress with 5 numbers drawn, and as  *)
(* completed at a given instant, under room codes that all differ.         *)
(* checkWinners completes the games in progress.                           *)
(***************************************************************************)
\* The room code of the n-th game inserted.
HistoryRoomCodes == <<"GAME001", "GAME002", "GAME003", "GAME004", "GAME005", "GAME006">>

\* The gameData given to insertGame under room code code.
HistoryGameData(code) ==
    {[room_code |-> code, status |-> "waiting", max_players |-> 10, current_players |-> 5,
      drawn_numbers |-> <<>>, draw_order |-> 0, started_at |-> Null, completed_at |-> Null],
     [room_code |-> code, status |-> "in_progress", max_players |-> 10, current_players |-> 5,
      drawn_numbers |-> <<1, 2, 3, 4, 5>>, draw_order |-> 5, started_at |-> Null,
      completed_at |-> Null]}
    \cup {[room_code |-> code, status |-> "completed", max_players |-> 10, current_players |-> 5,
           drawn_numbers |-> <<1, 2, 3, 4, 5>>, draw_order |-> 5, started_at |-> Null,
           completed_at |-> t] : t \in 1..MaxHistoryInstant}

\* insertGame(gameData): INSERT INTO games (...) VALUES (..., created_at or now, ...)
InsertGame(gameData) ==
    /\ nextGameId <= MaxHistoryGames
    /\ ~RoomCodeTaken(gameData.room_code)
    /\ games' = Insert(games, nextGameId, gameData @@ [created_at |-> Now])
    /\ nextGameId' = nextGameId + 1
    /\ ret' = Ok("insertGame", gameData, NoValue)
    /\ UNCHANGED <<players, drawEvents, nextPlayerId, nextDrawEventId, procs>>

\* Mutant: ORDER BY completed_at ASC.
ComesFirstAscending(a, b) == b = Null \/ (a # Null /\ a <= b)

\* ORDER BY completed_at DESC: a may come before b (a NULL sorts first).
ComesFirst(a, b) == a = Null \/ (b # Null /\ a >= b)

\* WHERE status = 'completed'
CompletedGames == {g \in DOMAIN games : games[g].status = "completed"}

\* The orders in which ORDER BY completed_at DESC may return the rows ids.
OrderedByCompletedAt(ids) ==
    {s \in [1..Cardinality(ids) -> ids] :
        /\ \A i, j \in DOMAIN s : i # j => s[i] # s[j]
        /\ \A i, j \in DOMAIN s :
              i < j => ComesFirst(games[s[i]].completed_at, games[s[j]].completed_at)}

\* LIMIT n
Limit(s, n) == SubSeq(s, 1, IF Len(s) < n THEN Len(s) ELSE n)

GetGameHistory ==
    /\ \E order \in OrderedByCompletedAt(CompletedGames) :
          ret' = Ok("getGameHistory", [none |-> TRUE],
                    [games |-> [i \in DOMAIN Limit(order, HistoryLimit) |-> GameRow(order[i])]])
    /\ UNCHANGED <<db, procs>>

HistoryNext ==
    \/ \E gameData \in HistoryGameData(HistoryRoomCodes[nextGameId]) : InsertGame(gameData)
    \/ \E g \in 1..MaxHistoryGames : CheckWinners(g)
    \/ GetGameHistory

HistorySpec == Init /\ [][HistoryNext]_vars

(***************************************************************************)
(* Properties.                                                             *)
(***************************************************************************)
\* The last call that returned was op(args) and it succeeded.
Returned(r, op, args) == r.op = op /\ r.args = args /\ r.status = "ok"

\* All the numbers of selection are among the drawn numbers, as sets.
Matches(selection, drawnNumbers) == Range(selection) \subseteq Range(drawnNumbers)

\* The reorderings of a sequence.
Reorderings(s) == {[i \in DOMAIN s |-> s[f[i]]] : f \in Permutations(DOMAIN s)}

\* C1: in every state reached by createGame, joinGame, leaveGame, startGame,
\* drawNumber and checkWinners calls, every game has draw_order equal to the
\* length of drawn_numbers, and drawn_numbers repeats no number.
C1_DrawOrderIsLength ==
    \A g \in DOMAIN games :
        /\ games[g].draw_order = Len(games[g].drawn_numbers)
        /\ Cardinality(Range(games[g].drawn_numbers)) = Len(games[g].drawn_numbers)

C1_Witness ==
    \E g \in DOMAIN games : games[g].status = "in_progress" /\ games[g].draw_order = 4

\* C2: drawNumber on an in_progress game with draw_order = k < 5 succeeds and
\* returns a draw event with draw_position k+1 and a number outside the prior
\* drawn_numbers; afterwards drawn_numbers is the prior sequence with that
\* number appended and draw_order is k+1; and the numbers it can return are
\* exactly the numbers of 1..MaxNumber that were not drawn before.
C2_DrawStep ==
    \A g \in GameIds :
        (/\ ret'.op = "drawNumber"
         /\ ret'.args = [gameId |-> g]
         /\ g \in DOMAIN games
         /\ games[g].status = "in_progress"
         /\ games[g].draw_order < DrawCount)
        => /\ ret'.status = "ok"
           /\ ret'.value.game_id = g
           /\ ret'.value.draw_position = games[g].draw_order + 1
           /\ ret'.value.drawn_number \in 1..MaxNumber
           /\ ret'.value.drawn_number \notin Range(games[g].drawn_numbers)
           /\ g \in DOMAIN games'
           /\ games'[g].drawn_numbers =
                  Append(games[g].drawn_numbers, ret'.value.drawn_number)
           /\ games'[g].draw_order = games[g].draw_order + 1

C2_PossibleDraws ==
    \A g \in DOMAIN games :
        (games[g].status = "in_progress" /\ games[g].draw_order < DrawCount)
        => \A n \in 1..MaxNumber :
               (ENABLED DrawNumberDraws(g, n)) <=> n \notin Range(games[g].drawn_numbers)

C2_DrawNumber == [][C2_DrawStep]_vars /\ []C2_PossibleDraws

C2_Witness ==
    \E g \in DOMAIN games :
        /\ Returned(ret, "drawNumber", [gameId |-> g])
        /\ ret.value.draw_position = 3
        /\ games[g].drawn_numbers[3] = ret.value.drawn_number

\* C3: when a drawNumber call has made the 5th draw of a game, the game is
\* completed with completed_at set, and a player of the game has is_winner
\* exactly if all the player's selected numbers are in the drawn numbers.
C3_FifthDrawCompletes ==
    \A g \in GameIds :
        (Returned(ret, "drawNumber", [gameId |-> g]) /\ ret.value.draw_position = DrawCount)
        => /\ g \in DOMAIN games
           /\ games[g].status = "completed"
           /\ games[g].completed_at # Null
           /\ \A p \in GamePlayers(g) :
                  players[p].is_winner
                      <=> Matches(players[p].selected_numbers, games[g].drawn_numbers)

C3_Witness ==
    \E g \in DOMAIN games :
        /\ Returned(ret, "drawNumber", [gameId |-> g])
        /\ ret.value.draw_position = DrawCount
        /\ \E p, q \in GamePlayers(g) : players[p].is_winner /\ ~players[q].is_winner

\* C4: checkWinners on a game that is already completed leaves the game's
\* completed_at and status as they were.
C4_CompletedAtSetOnce ==
    [][\A g \in GameIds :
          (/\ ret'.op = "checkWinners"
           /\ ret'.args = [gameId |-> g]
           /\ g \in DOMAIN games
           /\ games[g].status = "completed")
          => /\ g \in DOMAIN games'
             /\ games'[g].status = games[g].status
             /\ games'[g].completed_at = games[g].completed_at]_vars

\* C5: after checkWinners(g) succeeds, a player of g has is_winner exactly if
\* all the player's selected numbers are in the game's drawn_numbers, the
\* returned players are exactly those, and the game is completed.
C5_CheckWinnersMarks ==
    \A g \in GameIds :
        Returned(ret, "checkWinners", [gameId |-> g])
        => /\ g \in DOMAIN games
           /\ Len(games[g].drawn_numbers) = DrawCount
           /\ games[g].status = "completed"
           /\ \A p \in GamePlayers(g) :
                  players[p].is_winner
                      <=> Matches(players[p].selected_numbers, games[g].drawn_numbers)
           /\ ret.value.winners = {PlayerRow(p) : p \in {q \in GamePlayers(g) :
                  Matches(players[q].selected_numbers, games[g].drawn_numbers)}}

C5_Witness ==
    \E g \in DOMAIN games :
        /\ Returned(ret, "checkWinners", [gameId |-> g])
        /\ Cardinality(ret.value.winners) = 1
        /\ Cardinality(GamePlayers(g)) = 2

\* C6: winners are decided by sets alone: once the 5 numbers are drawn, a
\* player is a winner exactly if the selection and the drawn numbers are equal
\* as sets, and both tests of the code (the one in drawNumber, the one in
\* checkWinners) give that answer for every reordering of the selection.
C6_WinnerIsSetEquality ==
    \A g \in GameIds :
        (\/ Returned(ret, "drawNumber", [gameId |-> g]) /\ ret.value.draw_position = DrawCount
         \/ Returned(ret, "checkWinners", [gameId |-> g]))
        => \A p \in GamePlayers(g) :
               LET drawn == games[g].drawn_numbers
                   same == Range(players[p].selected_numbers) = Range(drawn)
               IN
               /\ players[p].is_winner <=> same
               /\ \A sel \in Reorderings(players[p].selected_numbers) :
                      /\ HasWon(sel, drawn) <=> same
                      /\ HasAllNumbers(sel, Range(drawn)) <=> same

C6_Witness ==
    \E g \in DOMAIN games : \E p \in GamePlayers(g) :
        /\ Returned(ret, "drawNumber", [gameId |-> g])
        /\ players[p].is_winner
        /\ players[p].selected_numbers = <<3, 1, 2, 5, 4>>
        /\ games[g].drawn_numbers = <<5, 4, 3, 2, 1>>

\* C7: a started game is advanced by drawNumber calls alone: every drawNumber
\* call on an in_progress game succeeds, a started game is completed exactly
\* when 5 numbers are drawn, no drawNumber call on a completed game succeeds
\* or changes anything, a completed game stays completed, and under fair
\* invocation of drawNumber an in_progress game eventually is completed.
C7_CompletedAtFive ==
    \A g \in DOMAIN games :
        games[g].status # "waiting"
        => /\ games[g].draw_order <= DrawCount
           /\ games[g].status = "completed" <=> games[g].draw_order = DrawCount

C7_DrawStep ==
    \A g \in GameIds :
        /\ (/\ ret'.op = "drawNumber"
            /\ ret'.args = [gameId |-> g]
            /\ g \in DOMAIN games
            /\ games[g].status = "in_progress")
           => /\ ret'.status = "ok"
              /\ games'[g].draw_order = games[g].draw_order + 1
        /\ (/\ ret'.op = "drawNumber"
            /\ ret'.args = [gameId |-> g]
            /\ g \in DOMAIN games
            /\ games[g].status = "completed")
           => /\ ret'.status # "ok"
              /\ UNCHANGED db
        /\ (g \in DOMAIN games /\ games[g].status = "completed")
           => (g \in DOMAIN games' /\ games'[g].status = "completed")

C7_EventuallyCompleted ==
    \A g \in GameIds :
        (g \in DOMAIN games /\ games[g].status = "in_progress")
            ~> (g \in DOMAIN games /\ games[g].status = "completed")

C9_JoinStep ==
    /\ (/\ ret'.op = "joinGame"
        /\ \E g \in GamesByRoomCode(ret'.args.room_code) :
               games[g].status = "waiting"
               /\ games[g].current_players < games[g].max_players)
       => ret'.status = "ok"
    /\ (ret'.op = "joinGame" /\ ret'.status = "ok")
       => LET g == ret'.value.game_id
              p == ret'.value.id
          IN
          /\ GamesByRoomCode(ret'.args.room_code) = {g}
          /\ p \notin DOMAIN players
          /\ DOMAIN players' = DOMAIN players \cup {p}
          /\ \A q \in DOMAIN players : players'[q] = players[q]
          /\ players'[p].game_id = g
          /\ players'[p].player_name = ret'.args.player_name
          /\ players'[p].selected_numbers = ret'.args.selected_numbers
          /\ players'[p].is_winner = FALSE
          /\ ret'.value = [id |-> p] @@ players'[p]
          /\ games'[g].current_players = games[g].current_players + 1
          /\ games' = [games EXCEPT ![g].current_players = games'[g].current_players]

C9_GetAfterJoin ==
    (/\ Returned(ret, "joinGame", ret.args)
     /\ ret'.op = "getGame"
     /\ ret'.args.room_code = ret.args.room_code)
    => /\ ret'.status = "ok"
       /\ ret'.value.game.id = ret.value.game_id
       /\ ret'.value.game.current_players = games[ret.value.game_id].current_players
       /\ ret'.value.game.current_players = Len(ret'.value.players)
       /\ \E i \in DOMAIN ret'.value.players : ret'.value.players[i] = ret.value

C9_JoinThenGetGame == [][C9_JoinStep /\ C9_GetAfterJoin]_vars

C9_Witness ==
    /\ ret.op = "getGame"
    /\ ret.status = "ok"
    /\ ret.value.game.status = "waiting"
    /\ ret.value.game.current_players = 2
    /\ Len(ret.value.players) = 2
    /\ ret.value.players[1].player_name # ret.value.players[2].player_name

\* The place of a status in the order waiting, in_progress, completed.
StatusRank(status) ==
    CASE status = "waiting" -> 0
      [] status = "in_progress" -> 1
      [] status = "completed" -> 2

C10_JoinIsAtomic ==
    \A g \in DOMAIN games : games[g].current_players = Cardinality(GamePlayers(g))

\* C11: in every state, overlapping joinGame calls included, every waiting or
\* in_progress game has 0 <= current_players <= max_players and at most
\* max_players player rows.
C11_PlayersWithinMax ==
    \A g \in DOMAIN games :
        games[g].status \in {"waiting", "in_progress"}
        => /\ 0 <= games[g].current_players
           /\ games[g].current_players <= games[g].max_players
           /\ Cardinality(GamePlayers(g)) <= games[g].max_players

\* C12: when every overlapping joinGame and leaveGame call has returned, a
\* waiting game that still exists has current_players equal to the number of
\* its player rows.
C12_NoLostUpdate ==
    procs = EmptyTable
    => \A g \in DOMAIN games :
           games[g].status = "waiting"
           => games[g].current_players = Cardinality(GamePlayers(g))

\* The player rows of game g.
RowsOf(table, g) == {p \in DOMAIN table : table[p].game_id = g}

\* The games that have the room code.
WithCode(table, code) == {g \in DOMAIN table : table[g].room_code = code}

\* C13: after any sequence of calls that run one after another, every waiting
\* game has current_players equal to the number of player rows of that game.
C13_WaitingCountIsPlayers ==
    \A g \in DOMAIN games :
        games[g].status = "waiting"
        => games[g].current_players = Cardinality(RowsOf(players, g))

C13_Witness ==
    /\ ret.op = "leaveGame"
    /\ ret.status = "ok"
    /\ \E g \in DOMAIN games :
          /\ g = ret.args.gameId
          /\ games[g].status = "waiting"
          /\ games[g].current_players = 1
          /\ Cardinality(RowsOf(players, g)) = 1

\* C14: a joinGame call on a waiting game whose current_players equals
\* max_players fails with GameFull, creates no player and changes no count.
C14_FullGameRejects ==
    [][(/\ ret'.op = "joinGame"
        /\ \E g \in WithCode(games, ret'.args.room_code) :
              /\ games[g].status = "waiting"
              /\ games[g].current_players = games[g].max_players)
       => (ret'.status = "GameFull" /\ UNCHANGED db)]_vars

C14_Witness ==
    /\ ret.op = "joinGame"
    /\ ret.status = "GameFull"
    /\ nextPlayerId <= MaxPlayerId
    /\ \E g \in WithCode(games, ret.args.room_code) :
          /\ games[g].status = "waiting"
          /\ games[g].current_players = games[g].max_players
          /\ Cardinality(RowsOf(players, g)) = games[g].max_players

\* C15: a joinGame call fails with NotFound when no game has the room code and
\* with InvalidState when the game is in_progress or completed, also when
\* current_players < max_players; no player is created and no count changes.
C15_JoinRejected ==
    [][/\ (ret'.op = "joinGame" /\ WithCode(games, ret'.args.room_code) = {})
          => (ret'.status = "NotFound" /\ UNCHANGED db)
       /\ (/\ ret'.op = "joinGame"
           /\ \E g \in WithCode(games, ret'.args.room_code) :
                 games[g].status \in {"in_progress", "completed"})
          => (ret'.status = "InvalidState" /\ UNCHANGED db)]_vars

C15_Witness ==
    /\ ret.op = "joinGame"
    /\ ret.status = "InvalidState"
    /\ nextPlayerId <= MaxPlayerId
    /\ \E g \in WithCode(games, ret.args.room_code) :
          /\ games[g].status = "in_progress"
          /\ games[g].current_players < games[g].max_players

\* C16: a successful leaveGame(g, p) on a waiting game with more than one
\* player removes exactly player p, decreases current_players by exactly 1,
\* returns true, and keeps the game and all its other players.
C16_LeaveRemovesOne ==
    [][\A g \in DOMAIN games, p \in DOMAIN players :
          (/\ Returned(ret', "leaveGame", [gameId |-> g, playerId |-> p])
           /\ games[g].status = "waiting"
           /\ Cardinality(RowsOf(players, g)) > 1)
          => /\ ret'.value = [left |-> TRUE]
             /\ DOMAIN players' = DOMAIN players \ {p}
             /\ \A q \in DOMAIN players' : players'[q] = players[q]
             /\ DOMAIN games' = DOMAIN games
             /\ games'[g].current_players = games[g].current_players - 1
             /\ games' = [games EXCEPT ![g].current_players = games'[g].current_players]]_vars

C16_Witness ==
    /\ ret.op = "leaveGame"
    /\ ret.status = "ok"
    /\ ret.args.playerId \notin DOMAIN players
    /\ \E g \in DOMAIN games :
          /\ g = ret.args.gameId
          /\ games[g].status = "waiting"
          /\ games[g].current_players = 2
          /\ Cardinality(RowsOf(players, g)) = 2

\* C17: leaveGame by the only remaining player of a waiting game deletes the
\* game together with the player and frees its room code; getGame on a room
\* code that no game has fails with NotFound.
C17_LastLeaveDeletesGame ==
    [][/\ \A g \in DOMAIN games, p \in DOMAIN players :
             (/\ Returned(ret', "leaveGame", [gameId |-> g, playerId |-> p])
              /\ RowsOf(players, g) = {p})
             => /\ g \notin DOMAIN games'
                /\ p \notin DOMAIN players'
                /\ RowsOf(players', g) = {}
                /\ WithCode(games', games[g].room_code) = {}
       /\ (ret'.op = "getGame" /\ WithCode(games, ret'.args.room_code) = {})
          => (ret'.status = "NotFound" /\ UNCHANGED db)]_vars

C17_Witness ==
    /\ ret.op = "getGame"
    /\ ret.status = "NotFound"
    /\ nextGameId > 1
    /\ nextPlayerId > 1
    /\ games = EmptyTable
    /\ players = EmptyTable

\* C18: every player row that a step removes is the one named by the leaveGame
\* call that returns in that step, and a leaveGame call deletes a game only
\* when no other player of the game remains.
C18_LeaveRemovesOnlyNamed ==
    [][/\ \A q \in DOMAIN players \ DOMAIN players' :
             /\ ret'.op = "leaveGame"
             /\ ret'.status = "ok"
             /\ ret'.args.playerId = q
       /\ \A g \in DOMAIN games \ DOMAIN games' :
             /\ ret'.op = "leaveGame"
             /\ ret'.status = "ok"
             /\ RowsOf(players, g) \subseteq {ret'.args.playerId}]_vars

\* C19: leaveGame fails with NotFound if the game does not exist, the player
\* does not exist or the player belongs to another game, and with InvalidState
\* if the game is in_progress or completed; a failing call deletes no player,
\* changes no current_players and deletes no game.
C19_LeaveRejected ==
    [][\A g \in AllGameIds, p \in PlayerIds :
          (ret'.op = "leaveGame" /\ ret'.args = [gameId |-> g, playerId |-> p])
          => /\ (g \notin DOMAIN games \/ p \notin DOMAIN players \/ players[p].game_id # g)
                => ret'.status = "NotFound"
             /\ (/\ g \in DOMAIN games
                 /\ p \in DOMAIN players
                 /\ players[p].game_id = g
                 /\ games[g].status \in {"in_progress", "completed"})
                => ret'.status = "InvalidState"
             /\ ret'.status # "ok" => UNCHANGED db]_vars

C19_Witness ==
    /\ ret.op = "leaveGame"
    /\ ret.status = "NotFound"
    /\ ret.args.gameId \in DOMAIN games
    /\ ret.args.playerId \in DOMAIN players
    /\ players[ret.args.playerId].game_id # ret.args.gameId

\* C20: a startGame call that runs without another call's statement in between,
\* on a waiting game with at least 2 player rows, succeeds and sets status to
\* in_progress, sets started_at, sets current_players to the number of player
\* rows of the game whatever the stored count was, and leaves draw_order 0,
\* drawn_numbers empty and completed_at null.
C20_StartGameStarts ==
    [][\A g \in DOMAIN games :
          (/\ ret'.op = "startGame"
           /\ ret'.args = [room_code |-> games[g].room_code]
           /\ procs' = procs
           /\ games[g].status = "waiting"
           /\ Cardinality(RowsOf(players, g)) >= MinPlayers)
          => /\ ret'.status = "ok"
             /\ ret'.value = [id |-> g] @@ games'[g]
             /\ games'[g].status = "in_progress"
             /\ games'[g].started_at # Null
             /\ games'[g].started_at > games[g].created_at
             /\ games'[g].current_players = Cardinality(RowsOf(players, g))
             /\ games'[g].draw_order = 0
             /\ games'[g].drawn_numbers = <<>>
             /\ games'[g].completed_at = Null
             /\ games'[g].room_code = games[g].room_code
             /\ games'[g].max_players = games[g].max_players
             /\ players' = players]_vars

\* A started game whose count was set from the rows while a joinGame call had
\* inserted its row and not yet counted it.
C20_Witness ==
    /\ ret.op = "startGame"
    /\ ret.status = "ok"
    /\ \E g \in DOMAIN games, i \in DOMAIN procs :
          /\ g = ret.value.id
          /\ procs[i].op = "joinGame"
          /\ procs[i].pc = "update"
          /\ procs[i].game = g
          /\ games[g].status = "in_progress"
          /\ games[g].current_players = Cardinality(RowsOf(players, g))
          /\ games[g].current_players = ret.value.current_players
          /\ games[g].draw_order = 0

\* C21: a startGame call on a waiting game with fewer than 2 player rows fails
\* with InsufficientPlayers, whatever the stored count is; the game stays
\* waiting with started_at null and no table changes.
C21_StartNeedsTwoPlayers ==
    [][\A g \in DOMAIN games :
          (/\ ret'.op = "startGame"
           /\ ret'.args = [room_code |-> games[g].room_code]
           /\ procs' = procs
           /\ games[g].status = "waiting"
           /\ Cardinality(RowsOf(players, g)) < MinPlayers)
          => /\ ret'.status = "InsufficientPlayers"
             /\ ret'.value = NoValue
             /\ g \in DOMAIN games'
             /\ games'[g] = games[g]
             /\ games'[g].status = "waiting"
             /\ games'[g].started_at = Null
             /\ UNCHANGED db]_vars

\* A refused start of a waiting game that has one player row.
C21_Witness ==
    /\ ret.op = "startGame"
    /\ ret.status = "InsufficientPlayers"
    /\ \E g \in DOMAIN games :
          /\ ret.args = [room_code |-> games[g].room_code]
          /\ games[g].status = "waiting"
          /\ games[g].started_at = Null
          /\ Cardinality(RowsOf(players, g)) = 1

\* C22: each game is started at most once: a step that writes started_at of a
\* game, the UPDATE of a successful startGame call, finds the game waiting and
\* never started, so of several startGame calls on a game, overlapping ones
\* included, at most one succeeds.
C22_StartedAtMostOnce ==
    [][\A g \in DOMAIN games \cap DOMAIN games' :
          games'[g].started_at # games[g].started_at
          => /\ games[g].status = "waiting"
             /\ games[g].started_at = Null]_vars

\* C23: a createGame call with the room code of a stored game fails with
\* DuplicateRoomCode and changes no table, so the stored game is as it was;
\* and in every state no two games have the same room code.
C23_DuplicateStep ==
    \A g \in DOMAIN games :
        (ret'.op = "createGame" /\ ret'.args.room_code = games[g].room_code)
        => /\ ret'.status = "DuplicateRoomCode"
           /\ ret'.value = NoValue
           /\ UNCHANGED db

C23_CodesDiffer ==
    \A g, h \in DOMAIN games : g # h => games[g].room_code # games[h].room_code

C24_CreateStep ==
    (ret'.op = "createGame" /\ ret'.status = "ok")
    => LET g == ret'.value.id IN
       /\ g \notin DOMAIN games
       /\ DOMAIN games' = DOMAIN games \cup {g}
       /\ \A h \in DOMAIN games : games'[h] = games[h]
       /\ games'[g].room_code = ret'.args.room_code
       /\ games'[g].max_players = ret'.args.max_players
       /\ games'[g].status = "waiting"
       /\ games'[g].current_players = 0
       /\ games'[g].drawn_numbers = <<>>
       /\ games'[g].draw_order = 0
       /\ games'[g].started_at = Null
       /\ games'[g].completed_at = Null
       /\ ret'.value = [id |-> g] @@ games'[g]
       /\ WithCode(games', ret'.args.room_code) = {g}
       /\ UNCHANGED <<players, drawEvents>>

C24_GetAfterCreate ==
    (/\ ret.op = "createGame"
     /\ ret.status = "ok"
     /\ ret'.op = "getGame"
     /\ ret'.args = [room_code |-> ret.args.room_code])
    => /\ ret'.status = "ok"
       /\ ret'.value.game = ret.value
       /\ ret'.value.players = <<>>
       /\ ret'.value.latest_draw = <<>>

C25_DrawNumberRejected ==
    [][ret'.op = "drawNumber"
       => LET g == ret'.args.gameId IN
          /\ g \notin DOMAIN games => ret'.status = "NotFound"
          /\ (g \in DOMAIN games /\ games[g].status \in {"waiting", "completed"})
             => ret'.status = "InvalidState"
          /\ (g \in DOMAIN games /\ games[g].status = "in_progress"
              /\ games[g].draw_order >= DrawCount)
             => ret'.status = "AllNumbersDrawn"
          /\ ret'.status \in {"NotFound", "InvalidState", "AllNumbersDrawn"}
             => /\ ret'.value = NoValue
                /\ UNCHANGED db]_vars

\* A refused draw on a game in progress that has 5 numbers drawn.
C25_Witness ==
    /\ ret.op = "drawNumber"
    /\ ret.status = "AllNumbersDrawn"
    /\ \E g \in DOMAIN games :
          /\ g = ret.args.gameId
          /\ games[g].status = "in_progress"
          /\ games[g].draw_order = 5
          /\ games[g].drawn_numbers = <<1, 2, 3, 4, 5>>
          /\ GameDrawEvents(g) = {}

\* C26: a checkWinners call fails with NotFound when no game has the id, and
\* with PreconditionFailed when drawn_numbers of the game is not 5 distinct
\* numbers; a call that fails changes no is_winner flag and leaves status and
\* completed_at of the game, and every table, as they were.
C26_CheckWinnersRejected ==
    [][ret'.op = "checkWinners"
       => LET g == ret'.args.gameId IN
          /\ g \notin DOMAIN games => ret'.status = "NotFound"
          /\ (/\ g \in DOMAIN games
              /\ ~(/\ Len(games[g].drawn_numbers) = 5
                   /\ Cardinality(Range(games[g].drawn_numbers)) = 5))
             => ret'.status = "PreconditionFailed"
          /\ ret'.status # "ok"
             => /\ ret'.status \in {"NotFound", "PreconditionFailed"}
                /\ ret'.value = NoValue
                /\ \A p \in DOMAIN players :
                      p \in DOMAIN players' /\ players'[p].is_winner = players[p].is_winner
                /\ \A h \in DOMAIN games :
                      /\ h \in DOMAIN games'
                      /\ games'[h].status = games[h].status
                      /\ games'[h].completed_at = games[h].completed_at
                /\ UNCHANGED db]_vars

\* A refused checkWinners on a game in progress with 4 numbers drawn and a
\* player whose 5 numbers include all 4.
C26_Witness ==
    /\ ret.op = "checkWinners"
    /\ ret.status = "PreconditionFailed"
    /\ \E g \in DOMAIN games :
          /\ g = ret.args.gameId
          /\ games[g].status = "in_progress"
          /\ games[g].draw_order = 4
          /\ games[g].completed_at = Null
          /\ \E p \in RowsOf(players, g) :
                /\ Range(games[g].drawn_numbers) \subseteq Range(players[p].selected_numbers)
                /\ ~players[p].is_winner

\* C27: checkWinners is idempotent on players.  A successful call returns the
\* rows, marked, of the players of the game whose 5 numbers are all drawn, and
\* leaves exactly those players marked among the ones it changes; a successful
\* call that finds them marked already changes no player; so a call that
\* follows a successful call on the same game succeeds, returns the same
\* winners and changes no player.
C27_CheckStep ==
    (ret'.op = "checkWinners" /\ ret'.status = "ok")
    => LET g == ret'.args.gameId
           matching == {p \in RowsOf(players, g) :
                           Matches(players[p].selected_numbers, games[g].drawn_numbers)}
       IN
       /\ DOMAIN players' = DOMAIN players
       /\ \A p \in matching : players'[p] = [players[p] EXCEPT !.is_winner = TRUE]
       /\ \A p \in DOMAIN players \ matching : players'[p] = players[p]
       /\ ret'.value.winners = {[id |-> p] @@ players'[p] : p \in matching}
       /\ (\A p \in matching : players[p].is_winner) => players' = players

C27_SecondCall ==
    (/\ ret.op = "checkWinners"
     /\ ret.status = "ok"
     /\ ret'.op = "checkWinners"
     /\ ret'.args = ret.args)
    => /\ ret'.status = "ok"
       /\ ret'.value = ret.value
       /\ players' = players

C27_CheckWinnersIdempotent == [][C27_CheckStep /\ C27_SecondCall]_vars

\* checkWinners has returned a winner that it marked itself, and has run a
\* second time: completed_at, which every call writes, is more than one
\* instant after every other instant stored.
C27_Witness ==
    /\ ret.op = "checkWinners"
    /\ ret.status = "ok"
    /\ ret.value.winners # {}
    /\ LET g == ret.args.gameId IN
       /\ g \in DOMAIN games
       /\ GameDrawEvents(g) = {}
       /\ \E p \in RowsOf(players, g) : players[p].is_winner
       /\ \E p \in RowsOf(players, g) : ~players[p].is_winner
       /\ games[g].completed_at > Max(Stamps \ {games[g].completed_at}) + 1

C29_HistoryValue ==
    ret.op = "getGameHistory"
    => /\ ret.status = "ok"
       /\ LET s == ret.value.games
              completed == {g \in DOMAIN games : games[g].status = "completed"}
              returned == {s[i].id : i \in DOMAIN s}
          IN
          /\ returned \subseteq completed
          /\ \A i \in DOMAIN s : s[i] = [id |-> s[i].id] @@ games[s[i].id]
          /\ \A i, j \in DOMAIN s : i # j => s[i].id # s[j].id
          /\ \A i, j \in DOMAIN s : i < j => s[i].completed_at >= s[j].completed_at
          /\ \A i \in DOMAIN s : s[i].completed_at # Null
          /\ Len(s) = IF Cardinality(completed) < HistoryLimit
                      THEN Cardinality(completed)
                      ELSE HistoryLimit
          /\ \A g \in completed \ returned :
                \A i \in DOMAIN s : games[g].completed_at <= s[i].completed_at

C29_HistoryStep == ret'.op = "getGameHistory" => UNCHANGED db

C29_GameHistory == []C29_HistoryValue /\ [][C29_HistoryStep]_vars

\* A history cut at the limit: more games are completed than are returned,
\* one of them completed by checkWinners, next to a game that is not
\* completed.
C29_Witness ==
    /\ ret.op = "getGameHistory"
    /\ Len(ret.value.games) = HistoryLimit
    /\ Cardinality({g \in DOMAIN games : games[g].status = "completed"}) > HistoryLimit
    /\ \E g \in DOMAIN games : games[g].status # "completed"
    /\ ret.value.games[1].completed_at > MaxHistoryInstant
    /\ ret.value.games[1].completed_at > ret.value.games[2].completed_at

\* C30: a call that reports a failure leaves the games, the players and the
\* draw events as they were: the step in which a call throws changes no
\* table, and a call that throws after its first statement has run none that
\* writes.
C30_FailureChangesNothing ==
    [][(/\ ret'.status # "ok"
        /\ \/ procs' = procs
           \/ DOMAIN procs' \subseteq DOMAIN procs /\ DOMAIN procs' # DOMAIN procs)
       => /\ ret'.value = NoValue
          /\ UNCHANGED db
          /\ \A i \in DOMAIN procs \ DOMAIN procs' :
                \/ procs[i].op = "joinGame" /\ procs[i].pc = "insert"
                \/ procs[i].op = "startGame" /\ procs[i].pc \in {"count", "update"}]_vars

\* A refused leaveGame on a game in progress: the named player is still
\* stored, next to a second game.
C30_Witness ==
    /\ ret.op = "leaveGame"
    /\ ret.status = "InvalidState"
    /\ ret.args.gameId \in DOMAIN games
    /\ games[ret.args.gameId].status = "in_progress"
    /\ ret.args.playerId \in RowsOf(players, ret.args.gameId)
    /\ Cardinality(DOMAIN games) = 2

\* C31: drawNumber awaits nothing, so overlapping drawNumber calls on a game
\* run one whole call after another, in any order: the draw events of a game
\* never hold a number twice, never hold a draw_position twice, and are as
\* many as draw_order of the game.
C31_DrawsDoNotCollide ==
    \A g \in DOMAIN games :
        LET events == RowsOf(drawEvents, g) IN
        /\ \A e, f \in events :
              e # f => /\ drawEvents[e].drawn_number # drawEvents[f].drawn_number
                       /\ drawEvents[e].draw_position # drawEvents[f].draw_position
        /\ games[g].draw_order = Cardinality(events)

\* Three drawNumber calls have stored their events for a game in progress.
C31_Witness ==
    \E g \in DOMAIN games :
        /\ games[g].status = "in_progress"
        /\ Cardinality(RowsOf(drawEvents, g)) = 3
        /\ ret.op = "drawNumber"
        /\ ret.status = "ok"
        /\ ret.value.draw_position = 3

\* C32: a joinGame, leaveGame, startGame, drawNumber or checkWinners call on
\* one game leaves every other game, and the players and the draw events of
\* every other game, as they were.
C32_OtherGamesUntouched ==
    [][ret'.op \in {"joinGame", "leaveGame", "startGame", "drawNumber", "checkWinners"}
       => LET target == IF ret'.op \in {"joinGame", "startGame"}
                        THEN WithCode(games, ret'.args.room_code)
                        ELSE {ret'.args.gameId}
          IN
          /\ \A h \in DOMAIN games \ target : h \in DOMAIN games' /\ games'[h] = games[h]
          /\ \A h \in DOMAIN games' : h \in DOMAIN games
          /\ \A p \in DOMAIN players :
                players[p].game_id \notin target
                => p \in DOMAIN players' /\ players'[p] = players[p]
          /\ \A p \in DOMAIN players' \ DOMAIN players : players'[p].game_id \in target
          /\ \A e \in DOMAIN drawEvents :
                drawEvents[e].game_id \notin target
                => e \in DOMAIN drawEvents' /\ drawEvents'[e] = drawEvents[e]
          /\ \A e \in DOMAIN drawEvents' \ DOMAIN drawEvents :
                drawEvents'[e].game_id \in target]_vars

\* The 5th draw of a game has marked its winner, and a waiting game next to it
\* has a player with the same numbers who is not marked.
C32_Witness ==
    /\ ret.op = "drawNumber"
    /\ ret.status = "ok"
    /\ ret.value.draw_position = 5
    /\ \E g, h \in DOMAIN games :
          /\ g = ret.value.game_id
          /\ h # g
          /\ games[h].status = "waiting"
          /\ \E p \in RowsOf(players, g) : players[p].is_winner
          /\ \E p \in RowsOf(players, h) :
                /\ Matches(players[p].selected_numbers, games[g].drawn_numbers)
                /\ ~players[p].is_winner

\* C33: in every state reached by createGame, joinGame, leaveGame, startGame,
\* drawNumber and checkWinners calls, a game in progress has a number of
\* 1..MaxNumber that is not drawn yet, and no drawNumber call has failed with
\* NoAvailableNumbers.
C33_PoolNeverEmpty ==
    /\ \A g \in DOMAIN games :
          games[g].status = "in_progress"
          => \E num \in 1..MaxNumber : num \notin Range(games[g].drawn_numbers)
    /\ ret.status # "NoAvailableNumbers"

\* A game in progress after its 4th draw: two numbers of the pool are left.
C33_Witness ==
    /\ ret.op = "drawNumber"
    /\ ret.status = "ok"
    /\ \E g \in DOMAIN games :
          /\ g = ret.value.game_id
          /\ games[g].status = "in_progress"
          /\ games[g].draw_order = 4
          /\ Cardinality({num \in 1..MaxNumber : num \notin Range(games[g].drawn_numbers)}) = 2

\* C34: once a game is in_progress or completed, no step adds a player to it,
\* removes one of its players or changes the selected_numbers of one.
C34_PlayersFixedAfterStart ==
    [][\A g \in DOMAIN games :
          games[g].status # "waiting"
          => /\ RowsOf(players', g) = RowsOf(players, g)
             /\ \A p \in RowsOf(players, g) :
                   players'[p].selected_numbers = players[p].selected_numbers]_vars

\* C35: draw events are append-only and agree with the game: a draw event is
\* stored only for a game in progress with draw_order < 5, is never changed or
\* removed afterwards, and in every state the draw events of a game have the
\* positions 1..draw_order, the event at position i holding the i-th of
\* drawn_numbers; so no startGame resets draw_order or drawn_numbers of a game
\* that has a draw event.
C35_EventsMatchGame ==
    \A g \in DOMAIN games :
        /\ {drawEvents[e].draw_position : e \in RowsOf(drawEvents, g)} = 1..games[g].draw_order
        /\ Cardinality(RowsOf(drawEvents, g)) = games[g].draw_order
        /\ \A e \in RowsOf(drawEvents, g) :
              /\ drawEvents[e].draw_position \in DOMAIN games[g].drawn_numbers
              /\ games[g].drawn_numbers[drawEvents[e].draw_position] = drawEvents[e].drawn_number

C35_EventsAppendOnly ==
    /\ \A e \in DOMAIN drawEvents : e \in DOMAIN drawEvents' /\ drawEvents'[e] = drawEvents[e]
    /\ \A e \in DOMAIN drawEvents' \ DOMAIN drawEvents :
          LET g == drawEvents'[e].game_id IN
          /\ g \in DOMAIN games
          /\ games[g].status = "in_progress"
          /\ games[g].draw_order < 5

C38_SameTest ==
    \A p \in DOMAIN players, g \in DOMAIN games :
        HasWon(players[p].selected_numbers, games[g].drawn_numbers)
        <=> HasAllNumbers(players[p].selected_numbers, Range(games[g].drawn_numbers))

C38_MarkStep ==
    (/\ ret'.status = "ok"
     /\ \/ ret'.op = "checkWinners"
        \/ ret'.op = "drawNumber" /\ ret'.value.draw_position = DrawCount)
    => LET g == IF ret'.op = "checkWinners" THEN ret'.args.gameId ELSE ret'.value.game_id IN
       /\ games'[g].status = "completed"
       /\ DOMAIN players' = DOMAIN players
       /\ \A p \in DOMAIN players :
             /\ players'[p].is_winner
                <=> \/ players[p].is_winner
                    \/ /\ players[p].game_id = g
                       /\ Matches(players[p].selected_numbers, games'[g].drawn_numbers)
             /\ players'[p] = [players[p] EXCEPT !.is_winner = players'[p].is_winner]

C38_DrawAgreesWithCheck == []C38_SameTest /\ [][C38_MarkStep]_vars

\* The 5th draw has marked one of two players of a game.
C38_Witness ==
    /\ ret.op = "drawNumber"
    /\ ret.status = "ok"
    /\ ret.value.draw_position = DrawCount
    /\ \E p, q \in RowsOf(players, ret.value.game_id) :
          /\ players[p].is_winner
          /\ ~players[q].is_winner
    /\ games[ret.value.game_id].status = "completed"

\* C39: every game in progress has at least 2 player rows and current_players
\* equal to the number of its player rows, also when startGame overlaps with
\* joinGame or leaveGame calls on the game.
C39_StartedGameHasPlayers ==
    \A g \in DOMAIN games :
        games[g].status = "in_progress"
        => /\ Cardinality(RowsOf(players, g)) >= MinPlayers
           /\ games[g].current_players = Cardinality(RowsOf(players, g))

\* C40: a joinGame call that returns a player has admitted the player: a
\* leaveGame call of another player that runs while the joinGame call is
\* between its INSERT and its return removes neither the row of the joining
\* player nor its game, so the row and the game exist when the call returns.
C40_JoinedPlayerKept ==
    [][\A i \in DOMAIN procs \ DOMAIN procs' :
          procs[i].op = "leaveGame"
          => \A j \in DOMAIN procs :
                (/\ procs[j].op = "joinGame"
                 /\ procs[j].pc = "update"
                 /\ procs[j].newPlayer.id # procs[i].args.playerId
                 /\ procs[j].newPlayer.id \in DOMAIN players)
                => /\ procs[j].newPlayer.id \in DOMAIN players'
                   /\ procs[j].game \in DOMAIN games']_vars

====
